---------------------------- MODULE Spec2Model ----------------------------
(***************************************************************************)
(* Model of the stencil maker's mask-to-vector-path engine                 *)
(* (src/src/utils/svg_exporter.py) and of the layer naming of              *)
(* masks_to_svgs.                                                          *)
(*                                                                         *)
(* A mask is a record [h, w, px]: its numpy shape (h, w) and the set px of *)
(* the coordinates <<x, y>> whose pixel is truthy.  A vertex (Point) is a  *)
(* tuple <<x, y>>.  The adjacency dict is a record [keys, nbrs]: keys is   *)
(* the sequence of the dict's keys in insertion order (the order a Python  *)
(* dict iterates in), nbrs maps each key to its neighbour set.             *)
(*                                                                         *)
(* Path strings are modelled as sequences of commands <<"M", x, y>>,       *)
(* <<"L", x, y>> and <<"Z">> whose coordinates are in quarter pixels (the  *)
(* bridges' y coordinates are multiples of 0.25), joined by concatenation. *)
(***************************************************************************)
EXTENDS Integers, Sequences, FiniteSets, TLC

\* ------------------------------------------------------------------ bounds
\* Every boolean mask of shape (h, w) with h * w <= MaxCells is an input, and
\* so is every empty mask of shape (0, w) or (h, 0) with h, w <= MaxCells.
MaxCells == 9
\* Solid rectangles up to MaxRect x MaxRect are inputs.
MaxRect == 5
\* Squares with a square hole (and a square island in it) up to this side.
MaxSide == 6
\* Palettes of up to MaxLayers colours are inputs of masks_to_svgs.
MaxLayers == 2

\* ------------------------------------------------------------- small helpers
None == <<>>

\* Python's tuple order on points: by x, then by y.
PointLess(p, q) == p[1] < q[1] \/ (p[1] = q[1] /\ p[2] < q[2])

\* sorted(s)[0] of a non-empty set of points.
SortedFirst(s) == CHOOSE p \in s : \A q \in s : q = p \/ PointLess(p, q)

Min(s) == CHOOSE a \in s : \A b \in s : a <= b
Max(s) == CHOOSE a \in s : \A b \in s : a >= b

RECURSIVE SumSeq(_)
SumSeq(s) == IF s = <<>> THEN 0 ELSE Head(s) + SumSeq(Tail(s))

RECURSIVE Flatten(_)
Flatten(ss) == IF ss = <<>> THEN <<>> ELSE Head(ss) \o Flatten(Tail(ss))

\* mask[y, x]
MaskAt(mask, y, x) == <<x, y>> \in mask.px

\* ------------------------------------------------------------ boundary graph
EmptyAdj == [keys |-> <<>>, nbrs |-> <<>>]

HasKey(a, k) == \E n \in 1..Len(a.keys) : a.keys[n] = k

\* The position of key k among the dict's keys.
KeyIndex(a, k) == CHOOSE n \in 1..Len(a.keys) : a.keys[n] = k

\* adj.setdefault(k, set()).add(v)
SetDefaultAdd(a, k, v) ==
    IF HasKey(a, k)
    THEN [a EXCEPT !.nbrs[KeyIndex(a, k)] = @ \cup {v}]
    ELSE [keys |-> Append(a.keys, k), nbrs |-> Append(a.nbrs, {v})]

_add_edge(a, v1, v2) == SetDefaultAdd(SetDefaultAdd(a, v1, v2), v2, v1)

\* adj[k]
Neighbors(a, k) == a.nbrs[KeyIndex(a, k)]


\* Mutant of PixelEdges: the bottom edge is never added.
PixelEdgesNoBottom(a, mask, x, y) ==
    IF ~MaskAt(mask, y, x) THEN a
    ELSE
      LET a1 == IF y = 0 \/ ~MaskAt(mask, y - 1, x)
                THEN _add_edge(a, <<x, y>>, <<x + 1, y>>) ELSE a
          a3 == IF x = 0 \/ ~MaskAt(mask, y, x - 1)
                THEN _add_edge(a1, <<x, y + 1>>, <<x, y>>) ELSE a1
          a4 == IF x = mask.w - 1 \/ ~MaskAt(mask, y, x + 1)
                THEN _add_edge(a3, <<x + 1, y>>, <<x + 1, y + 1>>) ELSE a3
      IN a4

\* Mutant of PixelEdges: false pixels are not skipped.
PixelEdgesAnyPixel(a, mask, x, y) ==
    LET a1 == IF y = 0 \/ ~MaskAt(mask, y - 1, x)
              THEN _add_edge(a, <<x, y>>, <<x + 1, y>>) ELSE a
        a2 == IF y = mask.h - 1 \/ ~MaskAt(mask, y + 1, x)
              THEN _add_edge(a1, <<x + 1, y + 1>>, <<x, y + 1>>) ELSE a1
        a3 == IF x = 0 \/ ~MaskAt(mask, y, x - 1)
              THEN _add_edge(a2, <<x, y + 1>>, <<x, y>>) ELSE a2
        a4 == IF x = mask.w - 1 \/ ~MaskAt(mask, y, x + 1)
              THEN _add_edge(a3, <<x + 1, y>>, <<x + 1, y + 1>>) ELSE a3
    IN a4

\* The four conditional _add_edge calls made for pixel (x, y), in source order.
PixelEdges(a, mask, x, y) ==
    IF ~MaskAt(mask, y, x) THEN a
    ELSE
      LET a1 == IF y = 0 \/ ~MaskAt(mask, y - 1, x)
                THEN _add_edge(a, <<x, y>>, <<x + 1, y>>) ELSE a
          a2 == IF y = mask.h - 1 \/ ~MaskAt(mask, y + 1, x)
                THEN _add_edge(a1, <<x + 1, y + 1>>, <<x, y + 1>>) ELSE a1
          a3 == IF x = 0 \/ ~MaskAt(mask, y, x - 1)
                THEN _add_edge(a2, <<x, y + 1>>, <<x, y>>) ELSE a2
          a4 == IF x = mask.w - 1 \/ ~MaskAt(mask, y, x + 1)
                THEN _add_edge(a3, <<x + 1, y>>, <<x + 1, y + 1>>) ELSE a3
      IN a4


\* Mutant of RemoveNeighbor: the emptied key is never deleted.
RemoveNeighborKeepsKey(a, k, v) ==
    [a EXCEPT !.nbrs[KeyIndex(a, k)] = @ \ {v}]

\* adj[k].remove(v); if not adj[k]: del adj[k]
RemoveNeighbor(a, k, v) ==
    LET n == KeyIndex(a, k)
        rest == a.nbrs[n] \ {v}
        Drop(s) == SubSeq(s, 1, n - 1) \o SubSeq(s, n + 1, Len(s))
    IN IF rest = {}
       THEN [keys |-> Drop(a.keys), nbrs |-> Drop(a.nbrs)]
       ELSE [a EXCEPT !.nbrs[n] = rest]


\* Mutant of _pop_edge: the edge is removed from v1's set only.
PopEdgeOneWay(a, v1, v2) == RemoveNeighbor(a, v1, v2)

_pop_edge(a, v1, v2) == RemoveNeighbor(RemoveNeighbor(a, v1, v2), v2, v1)

\* ------------------------------------------------------------ loop extraction
\* The tracer's local state: the mask, the number n of pixels the scan
\* `for y in range(h): for x in range(w)` has visited, the dict, the loops
\* found and the walk in progress.
\* at: "scan" (building the graph), "pick" (the test of `while adj`), "walk"
\* (one pass of the inner loop), "traced" (loops returned), "error"
\* (KeyError / IndexError raised).
TraceStart(mask) ==
    [mask |-> mask, n |-> 0, adj |-> EmptyAdj, loops |-> <<>>, start |-> None,
     loop |-> <<>>, prev |-> None, current |-> None,
     at |-> IF mask.h * mask.w = 0 THEN "pick" ELSE "scan"]

\* One pass of the scan's inner loop, for pixel (x, y) = (n % w, n // w).
ScanOp(s) ==
    LET x == s.n % s.mask.w
        y == s.n \div s.mask.w
    IN [s EXCEPT !.adj = PixelEdges(s.adj, s.mask, x, y),
                 !.n = s.n + 1,
                 !.at = IF s.n + 1 >= s.mask.h * s.mask.w THEN "pick" ELSE "scan"]

\* while adj: start = next(iter(adj)); loop = [start]; prev = None; current = start
PickOp(s) ==
    IF s.adj.keys = <<>> THEN [s EXCEPT !.at = "traced"]
    ELSE [s EXCEPT !.start = Head(s.adj.keys), !.loop = <<Head(s.adj.keys)>>,
                   !.prev = None, !.current = Head(s.adj.keys), !.at = "walk"]

\* The candidates sorted(...)[0] is taken from.
Candidates(s) ==
    IF s.prev = None THEN Neighbors(s.adj, s.current)
    ELSE {n \in Neighbors(s.adj, s.current) : n # s.prev}


\* Mutant of WalkOp: the vertex is appended before the test for the start.
WalkOpAppendsFirst(s) ==
    IF ~HasKey(s.adj, s.current) THEN [s EXCEPT !.at = "error"]
    ELSE IF Candidates(s) = {} THEN [s EXCEPT !.at = "error"]
    ELSE
      LET next_v == SortedFirst(Candidates(s))
          popped == _pop_edge(s.adj, s.current, next_v)
      IN IF next_v = s.start
         THEN [s EXCEPT !.adj = popped, !.prev = s.current, !.current = next_v,
                        !.loops = Append(s.loops, Append(s.loop, next_v)), !.at = "pick"]
         ELSE [s EXCEPT !.adj = popped, !.prev = s.current, !.current = next_v,
                        !.loop = Append(s.loop, next_v)]

\* One pass of the inner `while True`.
WalkOp(s) ==
    IF ~HasKey(s.adj, s.current) THEN [s EXCEPT !.at = "error"]
    ELSE IF Candidates(s) = {} THEN [s EXCEPT !.at = "error"]
    ELSE
      LET next_v == SortedFirst(Candidates(s))
          popped == _pop_edge(s.adj, s.current, next_v)
      IN IF next_v = s.start
         THEN [s EXCEPT !.adj = popped, !.prev = s.current, !.current = next_v,
                        !.loops = Append(s.loops, s.loop), !.at = "pick"]
         ELSE [s EXCEPT !.adj = popped, !.prev = s.current, !.current = next_v,
                        !.loop = Append(s.loop, next_v)]

StepOp(s) ==
    IF s.at = "scan" THEN ScanOp(s)
    ELSE IF s.at = "pick" THEN PickOp(s)
    ELSE WalkOp(s)

RECURSIVE RunTrace(_)
RunTrace(s) == IF s.at \in {"traced", "error"} THEN s ELSE RunTrace(StepOp(s))

\* The graph the scan builds.
BuildAdj(mask) ==
    LET RECURSIVE RunScan(_)
        RunScan(s) == IF s.at = "scan" THEN RunScan(ScanOp(s)) ELSE s
    IN RunScan(TraceStart(mask)).adj

\* The loops _trace_edges returns (<<>> if it raises).
_trace_edges(mask) == RunTrace(TraceStart(mask)).loops

\* ------------------------------------------------------------------ nesting
\* 1e-6 as a fraction: 1 / EpsDen.
EpsDen == 1000000

\* _point_in_loop((px / d, py / d), loop), d > 0, in exact rational arithmetic:
\* the float test  x < (x2 - x1) * (y - y1) / (y2 - y1 + 1e-6) + x1  multiplied
\* through by d, EpsDen and the (non-zero) divisor, whose sign is that of y2 - y1.
Crosses(px, py, d, p1, p2) ==
    LET x1 == p1[1]
        y1 == p1[2]
        x2 == p2[1]
        y2 == p2[2]
        lhs == (px - x1 * d) * ((y2 - y1) * EpsDen + 1)
        rhs == (x2 - x1) * (py - y1 * d) * EpsDen
    IN /\ (y1 * d > py) # (y2 * d > py)
       /\ IF y2 > y1 THEN lhs < rhs ELSE lhs > rhs

_point_in_loop(px, py, d, loop) ==
    LET n == Len(loop)
        hits == {i \in 1..n : Crosses(px, py, d, loop[i], loop[(i % n) + 1])}
    IN Cardinality(hits) % 2 = 1

\* xs, ys = zip(*loop)
Xs(loop) == [i \in 1..Len(loop) |-> loop[i][1]]
Ys(loop) == [i \in 1..Len(loop) |-> loop[i][2]]

\* The centroid (cx, cy) is (SumSeq(Xs) / len, SumSeq(Ys) / len).
_compute_loop_depths(loops) ==
    [i \in 1..Len(loops) |->
        Cardinality({j \in 1..Len(loops) :
            /\ j # i
            /\ _point_in_loop(SumSeq(Xs(loops[i])), SumSeq(Ys(loops[i])),
                              Len(loops[i]), loops[j])})]

\* ------------------------------------------------------------------ bridges
\* Coordinates of path commands are in quarter pixels.
Q == 4

SeqRange(s) == {s[i] : i \in 1..Len(s)}

\* _make_bridges(loop, img_w, img_h, span, half_thickness), with the half
\* thickness given in quarter pixels (hq = 1 for the call's 0.25).
_make_bridges(loop, img_w, img_h, span, hq) ==
    LET min_x == Min(SeqRange(Xs(loop)))
        max_x == Max(SeqRange(Xs(loop)))
        min_y == Min(SeqRange(Ys(loop)))
        max_y == Max(SeqRange(Ys(loop)))
        y_mid == (Q \div 2) * (min_y + max_y)
        left  == << <<"M", Q * min_x, y_mid - hq>>,
                    <<"L", Q * (min_x - span), y_mid - hq>>,
                    <<"L", Q * (min_x - span), y_mid + hq>>,
                    <<"L", Q * min_x, y_mid + hq>>,
                    <<"Z">> >>
        right == << <<"M", Q * max_x, y_mid - hq>>,
                    <<"L", Q * (max_x + span), y_mid - hq>>,
                    <<"L", Q * (max_x + span), y_mid + hq>>,
                    <<"L", Q * max_x, y_mid + hq>>,
                    <<"Z">> >>
    IN IF min_x = 0 \/ max_x = img_w \/ min_y = 0 \/ max_y = img_h
       THEN <<>>
       ELSE <<left, right>>

\* ------------------------------------------------------------ path assembly
\* "M x0 y0", "L x y" for loop[1:], "Z"
LoopPath(loop) ==
    [i \in 1..(Len(loop) + 1) |->
        IF i = 1 THEN <<"M", Q * loop[1][1], Q * loop[1][2]>>
        ELSE IF i <= Len(loop) THEN <<"L", Q * loop[i][1], Q * loop[i][2]>>
        ELSE <<"Z">>]


\* Mutant of LoopSubPaths: any even depth counts as an island.
LoopSubPathsAnyEven(loop, depth, w, h) ==
    <<LoopPath(loop)>> \o
    (IF depth % 2 = 0 THEN _make_bridges(loop, w, h, 1, 1) ELSE <<>>)

\* What one pass of `for loop, depth in zip(loops, depths)` adds to sub_paths.
LoopSubPaths(loop, depth, w, h) ==
    <<LoopPath(loop)>> \o
    (IF depth >= 2 /\ depth % 2 = 0 THEN _make_bridges(loop, w, h, 1, 1) ELSE <<>>)

RECURSIVE AssembleFrom(_, _, _, _, _)
AssembleFrom(loops, depths, w, h, i) ==
    IF i > Len(loops) \/ i > Len(depths) THEN <<>>
    ELSE LoopSubPaths(loops[i], depths[i], w, h) \o AssembleFrom(loops, depths, w, h, i + 1)

\* The list sub_paths after the for loop.
SubPaths(loops, depths, w, h) == AssembleFrom(loops, depths, w, h, 1)

\* The returned string, as the commands of " ".join(sub_paths); "" is <<>>.
_trace_contours_as_svg_paths(mask) ==
    LET ls == _trace_edges(mask)
        ds == _compute_loop_depths(ls)
    IN IF ls = <<>> THEN <<>> ELSE Flatten(SubPaths(ls, ds, mask.w, mask.h))

\* The pixel coordinates of a w x h grid.
Grid(w, h) == (0..(w - 1)) \X (0..(h - 1))

\* ------------------------------------------------------------- layer naming
\* _get_color_name(rgb, other_index): <<label, next index>>.  The labels
\* "white", "black" and f"color{k}" are <<"white">>, <<"black">>, <<"color", k>>.
_get_color_name(rgb, other_index) ==
    LET tol == 10
        Abs(v) == IF v < 0 THEN -v ELSE v
    IN IF \A i \in 1..Len(rgb) : Abs(rgb[i] - 255) <= tol
       THEN <<(<<"white">>), other_index>>
       ELSE IF \A i \in 1..Len(rgb) : rgb[i] <= tol
       THEN <<(<<"black">>), other_index>>
       ELSE <<(<<"color", other_index>>), other_index + 1>>

\* masks_from_quantized(label_map, rgba_palette): one mask per palette index;
\* a pixel is in mask idx iff its label is idx and its palette alpha is > 0.
\* label_map is a record [h, w, at] with at[<<x, y>>] the 0-based label.
masks_from_quantized(label_map, rgba_palette) ==
    [k \in 1..Len(rgba_palette) |->
        [h |-> label_map.h, w |-> label_map.w,
         px |-> {p \in Grid(label_map.w, label_map.h) :
                    /\ label_map.at[p] = k - 1
                    /\ rgba_palette[label_map.at[p] + 1][4] > 0}]]

\* What one pass of the for loop of masks_to_svgs saves, and under which label.
\* The document is the sequence of elements added to the drawing: one path
\* element when the traced path is non-empty (`if path_d:`), none otherwise.
\* The fill f"#{r:02x}{g:02x}{b:02x}" is <<"#", r1, r0, g1, g0, b1, b0>>.
LayerFile(m, rgba, index) ==
    LET rgb == SubSeq(rgba, 1, 3)
        named == _get_color_name(rgb, index)
        digits == <<"0", "1", "2", "3", "4", "5", "6", "7",
                    "8", "9", "a", "b", "c", "d", "e", "f">>
        hex(c) == <<digits[(c \div 16) + 1], digits[(c % 16) + 1]>>
        path == _trace_contours_as_svg_paths(m)
    IN [label |-> named[1], next_index |-> named[2],
        doc |-> IF path # <<>>
                THEN <<[d |-> path,
                        fill |-> <<"#">> \o hex(rgb[1]) \o hex(rgb[2]) \o hex(rgb[3]),
                        fill_rule |-> "evenodd"]>>
                ELSE <<>>]

\* ------------------------------------------------------------------- inputs

SmallMasks ==
    UNION {[h : {hh}, w : {ww}, px : SUBSET Grid(ww, hh)] :
              <<hh, ww>> \in {d \in (0..MaxCells) \X (0..MaxCells) : d[1] * d[2] <= MaxCells}}

SolidRect(w, h) == [h |-> h, w |-> w, px |-> Grid(w, h)]

SolidRects == {SolidRect(ww, hh) : <<ww, hh>> \in (1..MaxRect) \X (1..MaxRect)}

\* The pixels of the s x s square whose top-left pixel is (ox, oy).
Block(ox, oy, s) == (ox..(ox + s - 1)) \X (oy..(oy + s - 1))

\* An n x n filled square with an s x s hole at (ox, oy).
SquareWithHole(n, ox, oy, s) ==
    [h |-> n, w |-> n, px |-> Grid(n, n) \ Block(ox, oy, s)]

\* The same with a filled t x t island at (ix, iy) inside the hole.
SquareWithIsland(n, ox, oy, s, ix, iy, t) ==
    [h |-> n, w |-> n, px |-> (Grid(n, n) \ Block(ox, oy, s)) \cup Block(ix, iy, t)]

\* Holes lie strictly inside the square.
HoleParams ==
    {q \in (3..MaxSide) \X (1..MaxSide) \X (1..MaxSide) \X (1..MaxSide) :
        /\ q[2] + q[4] <= q[1] - 1
        /\ q[3] + q[4] <= q[1] - 1}

\* Islands lie strictly inside the hole.
IslandParams ==
    {r \in HoleParams \X (2..MaxSide) \X (2..MaxSide) \X (1..MaxSide) :
        /\ r[2] > r[1][2] /\ r[2] + r[4] <= r[1][2] + r[1][4] - 1
        /\ r[3] > r[1][3] /\ r[3] + r[4] <= r[1][3] + r[1][4] - 1}

HoleMasks == {SquareWithHole(q[1], q[2], q[3], q[4]) : q \in HoleParams}

IslandMasks ==
    {SquareWithIsland(r[1][1], r[1][2], r[1][3], r[1][4], r[2], r[3], r[4]) :
        r \in IslandParams}

Masks == SmallMasks \cup SolidRects \cup HoleMasks \cup IslandMasks


\* RGBA palette entries: white, within and just outside tolerance of white,
\* opaque and transparent black, within and just outside tolerance of black,
\* and a plain colour.
Colours ==
    { <<255, 255, 255, 255>>, <<245, 250, 255, 255>>, <<244, 255, 255, 255>>,
      <<0, 0, 0, 255>>, <<0, 0, 0, 0>>, <<10, 10, 10, 255>>, <<11, 0, 0, 255>>,
      <<200, 30, 40, 255>> }

Palettes == UNION {[1..k -> Colours] : k \in 1..MaxLayers}

\* Label maps of a 2 x 1 image over a palette of k colours.
LabelMaps(k) == [h : {1}, w : {2}, at : [Grid(2, 1) -> 0..(k - 1)]]

\* -------------------------------------------------------------------- state
VARIABLES
    mask,        \* the mask being converted
    pc,          \* where _trace_contours_as_svg_paths is
    n,           \* pixels visited by the graph-building scan
    adj,         \* the adjacency dict
    loops,       \* loops extracted so far
    start, loop, prev, current,   \* the walk in progress
    depths,      \* result of _compute_loop_depths
    sub_paths,   \* the list sub_paths
    path_d,      \* the returned path string, as its commands
    rgba_palette,          \* masks_to_svgs: the palette
    masks,                 \* masks_to_svgs: the masks, parallel to the palette
    layer,                 \* masks_to_svgs: 1-based position of the for loop
    special_color_index,   \* masks_to_svgs: the running colour counter
    files                  \* the files saved in out_dir: label -> document

evars == <<mask, pc, n, adj, loops, start, loop, prev, current, depths, sub_paths, path_d>>
nvars == <<rgba_palette, masks, layer, special_color_index, files>>
vars == <<evars, nvars>>

\* The tracer's state as the record the step operators work on.
Tracer ==
    [mask |-> mask, n |-> n, adj |-> adj, loops |-> loops, start |-> start,
     loop |-> loop, prev |-> prev, current |-> current, at |-> pc]

SetTracer(t) ==
    /\ mask' = t.mask
    /\ n' = t.n
    /\ adj' = t.adj
    /\ loops' = t.loops
    /\ start' = t.start
    /\ loop' = t.loop
    /\ prev' = t.prev
    /\ current' = t.current
    /\ pc' = t.at

Init ==
    /\ mask \in Masks
    /\ n = 0
    /\ adj = EmptyAdj
    /\ loops = <<>>
    /\ start = None
    /\ loop = <<>>
    /\ prev = None
    /\ current = None
    /\ pc = TraceStart(mask).at
    /\ depths = <<>>
    /\ sub_paths = <<>>
    /\ path_d = <<>>
    /\ rgba_palette = <<>>
    /\ masks = <<>>
    /\ layer = 1
    /\ special_color_index = 1
    /\ files = <<>>

\* One pixel of the graph-building scan.
ScanPixel ==
    /\ pc = "scan"
    /\ SetTracer(ScanOp(Tracer))
    /\ UNCHANGED <<depths, sub_paths, path_d>>
    /\ UNCHANGED nvars

\* `while adj` finds the dict non-empty: a new walk starts.
PickStart ==
    /\ pc = "pick"
    /\ adj.keys # <<>>
    /\ SetTracer(PickOp(Tracer))
    /\ UNCHANGED <<depths, sub_paths, path_d>>
    /\ UNCHANGED nvars

\* `while adj` finds the dict empty: _trace_edges returns loops.
ReturnLoops ==
    /\ pc = "pick"
    /\ adj.keys = <<>>
    /\ SetTracer(PickOp(Tracer))
    /\ UNCHANGED <<depths, sub_paths, path_d>>
    /\ UNCHANGED nvars

\* One pass of the walk.
WalkStep ==
    /\ pc = "walk"
    /\ SetTracer(WalkOp(Tracer))
    /\ UNCHANGED <<depths, sub_paths, path_d>>
    /\ UNCHANGED nvars

\* depths = _compute_loop_depths(loops)
ComputeDepths ==
    /\ pc = "traced"
    /\ depths' = _compute_loop_depths(loops)
    /\ pc' = "depths"
    /\ UNCHANGED <<mask, n, adj, loops, start, loop, prev, current, sub_paths, path_d>>
    /\ UNCHANGED nvars

\* if not loops: return ""
ReturnEmpty ==
    /\ pc = "depths"
    /\ loops = <<>>
    /\ path_d' = <<>>
    /\ pc' = "done"
    /\ UNCHANGED <<mask, n, adj, loops, start, loop, prev, current, depths, sub_paths>>
    /\ UNCHANGED nvars

\* The for loop over zip(loops, depths) and the final join.
Assemble ==
    /\ pc = "depths"
    /\ loops # <<>>
    /\ sub_paths' = SubPaths(loops, depths, mask.w, mask.h)
    /\ path_d' = Flatten(sub_paths')
    /\ pc' = "done"
    /\ UNCHANGED <<mask, n, adj, loops, start, loop, prev, current, depths>>
    /\ UNCHANGED nvars

Next ==
    \/ ScanPixel
    \/ PickStart
    \/ ReturnLoops
    \/ WalkStep
    \/ ComputeDepths
    \/ ReturnEmpty
    \/ Assemble

Spec == Init /\ [][Next]_vars

\* A step of the conversion is possible: the guards of the actions of Next
\* cover exactly these values of pc (PickStart and ReturnLoops split "pick",
\* ReturnEmpty and Assemble split "depths"), and every step changes pc, n or adj.
Running == pc \in {"scan", "pick", "walk", "traced", "depths"}

\* The conversion is one synchronous call that runs to its return: weak
\* fairness of Next, WF_vars(Next), written out with ENABLED <<Next>>_vars
\* replaced by its value Running.
LiveSpec == Spec /\ ([]<>(~Running) \/ []<><<Next>>_vars)

\* ------------------------------------------------------------ masks_to_svgs
\* masks_to_svgs is called with a palette and the masks built from a label map.
NamesInit ==
    /\ rgba_palette \in Palettes
    /\ \E lm \in LabelMaps(Len(rgba_palette)) :
          masks = masks_from_quantized(lm, rgba_palette)
    /\ layer = 1
    /\ special_color_index = 1
    /\ files = <<>>
    /\ mask = [h |-> 0, w |-> 0, px |-> {}]
    /\ pc = "idle"
    /\ n = 0
    /\ adj = EmptyAdj
    /\ loops = <<>>
    /\ start = None
    /\ loop = <<>>
    /\ prev = None
    /\ current = None
    /\ depths = <<>>
    /\ sub_paths = <<>>
    /\ path_d = <<>>

\* One pass of `for mask, rgba in zip(masks, rgba_palette)`: name the layer,
\* trace its mask, save the document under the label's file name.
ExportLayer ==
    /\ layer <= Len(masks)
    /\ layer <= Len(rgba_palette)
    /\ LET f == LayerFile(masks[layer], rgba_palette[layer], special_color_index)
       IN /\ special_color_index' = f.next_index
          /\ files' = [l \in (DOMAIN files) \cup {f.label} |->
                          IF l = f.label THEN f.doc ELSE files[l]]
    /\ layer' = layer + 1
    /\ UNCHANGED <<rgba_palette, masks>>
    /\ UNCHANGED evars

NamesNext == ExportLayer

SpecNames == NamesInit /\ [][NamesNext]_vars

\* ------------------------------------------------------- properties: helpers
\* _trace_edges has returned its loops.
Returned == pc \in {"traced", "depths", "done"}

\* The undirected pair of loop vertex i and its successor (the last vertex's
\* successor is the first).
EdgeAt(l, i) == {l[i], l[(i % Len(l)) + 1]}

LoopEdgeSet(l) == {EdgeAt(l, i) : i \in 1..Len(l)}

\* The positions <<loop, index>> of all consecutive pairs of all loops.
EdgeSlots(ls) == UNION {{<<j, i>> : i \in 1..Len(ls[j])} : j \in 1..Len(ls)}

\* The undirected edges of an adjacency dict.
GraphEdges(a) == UNION {{{a.keys[k], v} : v \in a.nbrs[k]} : k \in 1..Len(a.keys)}

\* C1 -- Edge conservation: once the loops are returned, the consecutive vertex
\* pairs of all loops (closing pair included) are exactly the edges of the
\* boundary graph built from the mask, and no edge is used by two pairs.
EdgeConservation ==
    Returned =>
        LET used == {EdgeAt(loops[sl[1]], sl[2]) : sl \in EdgeSlots(loops)}
        IN /\ used = GraphEdges(BuildAdj(mask))
           /\ Cardinality(used) = Cardinality(EdgeSlots(loops))

\* C1 witness: a conversion that returned at least two loops, one of them
\* through a degree-4 junction.
EdgeConservationWitness ==
    /\ pc = "done"
    /\ Len(loops) >= 2
    /\ \E k \in 1..Len(BuildAdj(mask).keys) : Cardinality(BuildAdj(mask).nbrs[k]) = 4

\* The mask is one completely filled rectangle.
IsSolid == mask.h >= 1 /\ mask.w >= 1 /\ mask.px = Grid(mask.w, mask.h)

\* The lattice points on the border of the w x h canvas.
Perimeter(w, h) == {p \in (0..w) \X (0..h) : p[1] \in {0, w} \/ p[2] \in {0, h}}

\* C2 as amended -- a solid W x H rectangle gives exactly one loop, whose
\* vertices are the 2 (W + H) lattice points of the perimeter, each once; its
\* depth is 0 and the path holds the loop's sub-path only (no bridge).
SolidRectangleTraced ==
    (pc = "done" /\ IsSolid) =>
        /\ Len(loops) = 1
        /\ Len(loops[1]) = 2 * (mask.w + mask.h)
        /\ SeqRange(loops[1]) = Perimeter(mask.w, mask.h)
        /\ depths = <<0>>
        /\ sub_paths = <<LoopPath(loops[1])>>

\* C2 witness: a solid rectangle wider and taller than one pixel was converted.
SolidRectangleWitness == pc = "done" /\ IsSolid /\ mask.w >= 2 /\ mask.h >= 3

\* C2 as stated -- a solid W x H rectangle gives exactly one loop of exactly 4
\* vertices, depth 0, no bridge.
SolidRectangleFourVertices ==
    (pc = "done" /\ IsSolid) =>
        /\ Len(loops) = 1
        /\ Len(loops[1]) = 4
        /\ depths = <<0>>
        /\ sub_paths = <<LoopPath(loops[1])>>

\* C3 -- Containment monotonicity: a square with a square hole gets depths 0, 1
\* and no bridge; with a square island in the hole it gets depths 0, 1, 2 and
\* bridges for the island loop only.
NestedSquareDepths ==
    pc = "done" =>
        /\ mask \in HoleMasks =>
              /\ depths = <<0, 1>>
              /\ sub_paths = <<LoopPath(loops[1]), LoopPath(loops[2])>>
        /\ mask \in IslandMasks =>
              /\ depths = <<0, 1, 2>>
              /\ sub_paths = <<LoopPath(loops[1]), LoopPath(loops[2]), LoopPath(loops[3])>>
                               \o _make_bridges(loops[3], mask.w, mask.h, 1, 1)
              /\ Len(sub_paths) = 5

\* C4 -- Every returned loop is simple: no vertex occurs twice in it.
SimpleLoops ==
    Returned => \A j \in 1..Len(loops) : Cardinality(SeqRange(loops[j])) = Len(loops[j])

\* The loop's bounding box touches the canvas border.
TouchesBorder(l, w, h) ==
    \/ Min(SeqRange(Xs(l))) = 0
    \/ Max(SeqRange(Xs(l))) = w
    \/ Min(SeqRange(Ys(l))) = 0
    \/ Max(SeqRange(Ys(l))) = h

\* Loop j is owed bridges: even depth >= 2, bounding box off the border.
Bridged(j) ==
    /\ depths[j] >= 2
    /\ depths[j] % 2 = 0
    /\ ~TouchesBorder(loops[j], mask.w, mask.h)

\* Where loop j's sub-path stands if exactly the owed bridges were emitted.
SlotOf(j) == j + 2 * Cardinality({k \in 1..(j - 1) : Bridged(k)})

\* A closed 4-point sub-path that starts on x = edge and goes to the given side.
LeavesLeft(sp, x) ==
    Len(sp) = 5 /\ sp[1][1] = "M" /\ sp[1][2] = Q * x /\ sp[2][2] < Q * x /\ sp[5] = <<"Z">>
LeavesRight(sp, x) ==
    Len(sp) = 5 /\ sp[1][1] = "M" /\ sp[1][2] = Q * x /\ sp[2][2] > Q * x /\ sp[5] = <<"Z">>

\* C5 -- Bridge rule and border exclusion: in the assembled path every loop's
\* sub-path is followed by exactly two bridges (one leaving the bounding box at
\* min x to the left, one at max x to the right) when its depth is even and
\* >= 2 and its bounding box is off the canvas border, and by none otherwise.
BridgeRule ==
    (pc = "done" /\ loops # <<>>) =>
        /\ Len(sub_paths) = Len(loops) + 2 * Cardinality({k \in 1..Len(loops) : Bridged(k)})
        /\ \A j \in 1..Len(loops) :
              /\ sub_paths[SlotOf(j)] = LoopPath(loops[j])
              /\ Bridged(j) =>
                    /\ LeavesLeft(sub_paths[SlotOf(j) + 1], Min(SeqRange(Xs(loops[j]))))
                    /\ LeavesRight(sub_paths[SlotOf(j) + 2], Max(SeqRange(Xs(loops[j]))))

\* C5 witness: a path in which one loop got its bridges and another loop of
\* even depth >= 2 got none because it touches the border.
BridgeRuleWitness ==
    /\ pc = "done"
    /\ \E j \in 1..Len(loops) : Bridged(j)
    /\ \E j \in 1..Len(loops) :
          depths[j] >= 2 /\ depths[j] % 2 = 0 /\ TouchesBorder(loops[j], mask.w, mask.h)

\* The mask has no pixel or no true pixel.
Degenerate == mask.h = 0 \/ mask.w = 0 \/ mask.px = {}

\* C7 -- A degenerate mask is not an error: the tracer never raises, returns
\* no loop, and the path returned is empty (no sub-path, no bridge).
DegenerateIsEmpty ==
    Degenerate =>
        /\ pc # "error"
        /\ Returned => loops = <<>>
        /\ pc = "done" => (sub_paths = <<>> /\ path_d = <<>>)

\* C7 witness: an all-false mask with pixels was converted.
DegenerateWitness == pc = "done" /\ mask.px = {} /\ mask.h >= 1 /\ mask.w >= 2

\* The scan has just ended: the dict holds the whole boundary graph.
Scanned == pc = "pick" /\ loops = <<>>

\* Two true pixels touch diagonally at lattice point v, the other two pixels
\* around v being false.
DiagonalTouch(m, v) ==
    LET nw == MaskAt(m, v[2] - 1, v[1] - 1)
        ne == MaskAt(m, v[2] - 1, v[1])
        sw == MaskAt(m, v[2], v[1] - 1)
        se == MaskAt(m, v[2], v[1])
    IN (nw /\ se /\ ~ne /\ ~sw) \/ (ne /\ sw /\ ~nw /\ ~se)

\* C8 -- Even degree: after the scan every vertex of the dict has degree 2 or
\* 4, and degree 4 only where two true pixels touch diagonally.
EvenDegree ==
    Scanned =>
        \A k \in 1..Len(adj.keys) :
            /\ Cardinality(adj.nbrs[k]) \in {2, 4}
            /\ Cardinality(adj.nbrs[k]) = 4 => DiagonalTouch(mask, adj.keys[k])

\* C8 witness: a scanned graph with a degree-4 vertex and a degree-2 vertex.
EvenDegreeWitness ==
    /\ Scanned
    /\ \E k \in 1..Len(adj.keys) : Cardinality(adj.nbrs[k]) = 4
    /\ \E k \in 1..Len(adj.keys) : Cardinality(adj.nbrs[k]) = 2

\* C9 -- Loop extraction completes: every pass of a walk finds the current
\* vertex in the dict with a candidate to move to, the tracer never raises,
\* a walk that ended is back at its start vertex, every walk eventually ends
\* (the outer test runs again), and the extraction eventually returns with
\* the dict empty.
ExtractionCompletes ==
    /\ [](pc = "walk" => (HasKey(adj, current) /\ Candidates(Tracer) # {}))
    /\ [](pc # "error")
    /\ []((pc = "pick" /\ loops # <<>>) => current = start)
    /\ (pc = "walk") ~> (pc = "pick")
    /\ <>(pc = "traced" /\ adj.keys = <<>>)

\* C9 witness: an extraction of three loops or more ended with the dict empty.
ExtractionWitness == pc = "traced" /\ adj.keys = <<>> /\ Len(loops) >= 3

\* C10 -- One file per layer: after each pass of the for loop there are as
\* many files as layers processed (no label was handed out twice).
OneFilePerLayer == Cardinality(DOMAIN files) = layer - 1

=============================================================================
